---- MODULE Spec2Model ----
(***************************************************************************)
(* Model of src/lib/recommendations.ts: the job-recommendation ranking     *)
(* (computeRecommendationsForAllUsers, computeRecommendationsForUser), the *)
(* candidate loader with its posts fallback, the text normalisers and the  *)
(* accessibility boost.                                                    *)
(*                                                                         *)
(* Strings are sequences of one-character strings.  Scores are integers in *)
(* units of 1/40 (0.025): a cosine of 1.0 is 40, the 0.05 credit of one    *)
(* accessibility match is 2, the 0.2 cap is 8, one keyword hit is 40.      *)
(* Match counts are kept in halves (the generic credit is 0.5).            *)
(***************************************************************************)
EXTENDS Integers, Sequences, FiniteSets, TLC

\* ------------------------------------------------------------------ bounds
MaxProfiles == 2
MaxJobs == 2
MaxTopN == 2
MaxNegTopN == 1

\* ------------------------------------------------------ program constants
\* .limit(1000) on the jobs and the posts query
RowCap == 1000
\* Math.min(0.2, ...) in units of 0.025
BoostCap == 8
\* matches * 0.05, per half match, in units of 0.025
HalfMatchCredit == 1
\* computeAccessibilityBoost(...) * 20 on the keyword path
KeywordBoostScale == 20
\* 1.0 in score units
One == 5 * BoostCap

\* ------------------------------------------------------- string helpers
Min(a, b) == IF a <= b THEN a ELSE b
Max(a, b) == IF a >= b THEN a ELSE b

\* /\s/
WhiteSpace == {" ", "\t", "\n"}
\* /[\s,;]/
KeywordSeparators == WhiteSpace \cup {",", ";"}

UpperCase ==
  [c \in {"A","B","C","D","E","F","G","H","I","J","K","L","M",
          "N","O","P","Q","R","S","T","U","V","W","X","Y","Z"} |->
     CASE c = "A" -> "a" [] c = "B" -> "b" [] c = "C" -> "c" [] c = "D" -> "d"
       [] c = "E" -> "e" [] c = "F" -> "f" [] c = "G" -> "g" [] c = "H" -> "h"
       [] c = "I" -> "i" [] c = "J" -> "j" [] c = "K" -> "k" [] c = "L" -> "l"
       [] c = "M" -> "m" [] c = "N" -> "n" [] c = "O" -> "o" [] c = "P" -> "p"
       [] c = "Q" -> "q" [] c = "R" -> "r" [] c = "S" -> "s" [] c = "T" -> "t"
       [] c = "U" -> "u" [] c = "V" -> "v" [] c = "W" -> "w" [] c = "X" -> "x"
       [] c = "Y" -> "y" [] c = "Z" -> "z"]

\* String.prototype.toLowerCase
toLowerCase(s) ==
  [i \in 1..Len(s) |-> IF s[i] \in DOMAIN UpperCase THEN UpperCase[s[i]] ELSE s[i]]

\* String.prototype.includes
includes(text, word) ==
  \E i \in 0..(Len(text) - Len(word)) : SubSeq(text, i + 1, i + Len(word)) = word

\* String.prototype.trim
RECURSIVE trimStart(_)
trimStart(s) ==
  IF s # <<>> /\ Head(s) \in WhiteSpace THEN trimStart(Tail(s)) ELSE s
RECURSIVE trimEnd(_)
trimEnd(s) ==
  IF s # <<>> /\ s[Len(s)] \in WhiteSpace THEN trimEnd(SubSeq(s, 1, Len(s) - 1)) ELSE s
trim(s) == trimEnd(trimStart(s))

\* Array.prototype.filter(Boolean) on an array of strings
filterBoolean(arr) == SelectSeq(arr, LAMBDA s : s # <<>>)

\* Array.prototype.join
RECURSIVE join(_, _)
join(arr, sep) ==
  IF arr = <<>> THEN <<>>
  ELSE IF Len(arr) = 1 THEN arr[1]
  ELSE arr[1] \o sep \o join(Tail(arr), sep)

\* String.prototype.split(/[seps]+/): the pieces between maximal runs of
\* separators, with the empty pieces at the two ends that JavaScript keeps
RECURSIVE runEnd(_, _, _)
runEnd(s, seps, i) ==
  IF i + 1 <= Len(s) /\ s[i + 1] \in seps THEN runEnd(s, seps, i + 1) ELSE i
RECURSIVE splitFrom(_, _, _, _, _)
splitFrom(s, seps, i, cur, acc) ==
  IF i > Len(s) THEN Append(acc, cur)
  ELSE IF s[i] \in seps
       THEN splitFrom(s, seps, runEnd(s, seps, i) + 1, <<>>, Append(acc, cur))
       ELSE splitFrom(s, seps, i + 1, Append(cur, s[i]), acc)
split(s, seps) == splitFrom(s, seps, 1, <<>>, <<>>)

\* the set of the elements of a sequence (new Set(array))
ToSet(arr) == {arr[i] : i \in 1..Len(arr)}

\* ------------------------------------------- literals of the boost rules
\* 'visual'
kwVisual == <<"v","i","s","u","a","l">>
\* 'hearing'
kwHearing == <<"h","e","a","r","i","n","g">>
\* 'mobility'
kwMobility == <<"m","o","b","i","l","i","t","y">>
\* 'cognitive'
kwCognitive == <<"c","o","g","n","i","t","i","v","e">>
\* 'screenreadersupport'
ftScreenReaderSupport == <<"s","c","r","e","e","n","r","e","a","d","e","r","s","u","p","p","o","r","t">>
\* 'screen_reader_support'
ftScreenReaderSupportSnake == <<"s","c","r","e","e","n","_","r","e","a","d","e","r","_","s","u","p","p","o","r","t">>
\* 'assistivetechnology'
ftAssistiveTechnology == <<"a","s","s","i","s","t","i","v","e","t","e","c","h","n","o","l","o","g","y">>
\* 'signlanguagesupport'
ftSignLanguageSupport == <<"s","i","g","n","l","a","n","g","u","a","g","e","s","u","p","p","o","r","t">>
\* 'accessibleoffice'
ftAccessibleOffice == <<"a","c","c","e","s","s","i","b","l","e","o","f","f","i","c","e">>
\* 'remotework'
ftRemoteWork == <<"r","e","m","o","t","e","w","o","r","k">>
\* 'flexiblehours'
ftFlexibleHours == <<"f","l","e","x","i","b","l","e","h","o","u","r","s">>

\* -------------------------------------------------------- text normaliser
\* A field that may hold a string, an array of strings or nothing is a record
\* [kind |-> "str" | "arr" | "null", str |-> chars, arr |-> sequence of chars].
\* An accessibility_features object is the sequence of its [key, value]
\* entries in Object.entries order; an absent or non-object value has no
\* entries, which is what both loops of jobAccessibilityToText make of it.
\* An absent title, description or content is the empty string: the code
\* reads these three only through `x || ...`, which treats the two alike.
skillsToText(skills) ==
  IF skills.kind = "arr" THEN join(filterBoolean(skills.arr), <<" ">>)
  ELSE IF skills.kind = "str" THEN skills.str
  ELSE <<>>

accessibilityNeedsToText(needs) ==
  IF needs.kind = "arr" THEN join(filterBoolean(needs.arr), <<" ">>)
  ELSE IF needs.kind = "str" THEN needs.str
  ELSE <<>>

\* the keys of the truthy entries, in order
truthyKeys(entries) ==
  LET kept == SelectSeq(entries, LAMBDA e : e.value)
  IN  [i \in 1..Len(kept) |-> kept[i].key]

jobAccessibilityToText(job) ==
  LET fromMetadata == job.job_metadata.accessibility_features
      jobTableFeatures == job.accessibility_features
      features == truthyKeys(fromMetadata) \o truthyKeys(jobTableFeatures)
  IN  join(features, <<" ">>)

\* `${skillsToText} ${accessibilityNeedsToText}`.trim()
profileText(p) ==
  trim(skillsToText(p.skills) \o <<" ">> \o accessibilityNeedsToText(p.accessibility_needs))

\* j.description || j.content || j.title || ''
bestText(j) ==
  IF j.description # <<>> THEN j.description
  ELSE IF j.content # <<>> THEN j.content
  ELSE j.title

\* `${bestText} ${jobAccessibilityToText(j)}`.trim()
jobText(j) == trim(bestText(j) \o <<" ">> \o jobAccessibilityToText(j))

\* ------------------------------------------------- accessibility scorer
\* new Set(jobAccessibilityToText(job).toLowerCase().split(/\s+/).filter(Boolean))
enabledFeatures(job) ==
  ToSet(filterBoolean(split(toLowerCase(jobAccessibilityToText(job)), WhiteSpace)))

\* the credit of one need, in half matches (matches++ is 2, matches += 0.5 is 1)
needCredit(needRaw, enabled) ==
  LET need == toLowerCase(needRaw)
  IN  IF need = <<>> THEN 0
      ELSE IF includes(need, kwVisual)
        THEN IF ftScreenReaderSupport \in enabled
                \/ ftScreenReaderSupportSnake \in enabled
                \/ ftAssistiveTechnology \in enabled THEN 2 ELSE 0
      ELSE IF includes(need, kwHearing)
        THEN IF ftSignLanguageSupport \in enabled THEN 2 ELSE 0
      ELSE IF includes(need, kwMobility)
        THEN IF ftAccessibleOffice \in enabled \/ ftRemoteWork \in enabled THEN 2 ELSE 0
      ELSE IF includes(need, kwCognitive)
        THEN IF ftFlexibleHours \in enabled \/ ftRemoteWork \in enabled THEN 2 ELSE 0
      ELSE IF Cardinality(enabled) > 0 THEN 1 ELSE 0

\* the loop over needs: the accumulated `matches`, in half matches
RECURSIVE countMatches(_, _)
countMatches(needs, enabled) ==
  IF needs = <<>> THEN 0
  ELSE needCredit(Head(needs), enabled) + countMatches(Tail(needs), enabled)

\* the items `for (const needRaw of needs)` visits; !needs holds of null and ''
needItems(needs) ==
  IF needs.kind = "arr" THEN needs.arr
  ELSE IF needs.kind = "str" THEN [i \in 1..Len(needs.str) |-> <<needs.str[i]>>]
  ELSE <<>>

\* `matches` at the end of the loop (0 when an early return is taken)
matchCount(needs, job) ==
  IF needItems(needs) = <<>> THEN 0
  ELSE IF enabledFeatures(job) = {} THEN 0
  ELSE countMatches(needItems(needs), enabledFeatures(job))

\* a boost without the cap
computeAccessibilityBoostUncapped(needs, job) ==
  IF needItems(needs) = <<>> THEN 0
  ELSE IF Cardinality(enabledFeatures(job)) = 0 THEN 0
  ELSE countMatches(needItems(needs), enabledFeatures(job)) * HalfMatchCredit

computeAccessibilityBoost(needs, job) ==
  IF needItems(needs) = <<>> THEN 0
  ELSE IF Cardinality(enabledFeatures(job)) = 0 THEN 0
  ELSE Min(BoostCap, countMatches(needItems(needs), enabledFeatures(job)) * HalfMatchCredit)

\* ---------------------------------------------------- the stored tables
\* The rows the storage backend holds.  A query answers with the first k
\* rows that pass its filter.
\* skills "Go, rust", needs ["Visual"]
ProfileRow1 ==
  [id |-> "u1",
   skills |-> [kind |-> "str", str |-> <<"G","o",","," ","r","u","s","t">>, arr |-> <<>>],
   accessibility_needs |-> [kind |-> "arr", str |-> <<>>, arr |-> <<<<"V","i","s","u","a","l">>>>]]
\* skills ["java", "", "go"], needs ["visual", "Visual", "mobility", "cognitive", "other", ""]
ProfileRow2 ==
  [id |-> "u2",
   skills |-> [kind |-> "arr", str |-> <<>>, arr |-> <<<<"j","a","v","a">>, <<>>, <<"g","o">>>>],
   accessibility_needs |-> [kind |-> "arr", str |-> <<>>, arr |-> <<<<"v","i","s","u","a","l">>, <<"V","i","s","u","a","l">>, <<"m","o","b","i","l","i","t","y">>, <<"c","o","g","n","i","t","i","v","e">>, <<"o","t","h","e","r">>, <<>>>>]]
\* no skills, no needs
ProfileRow3 ==
  [id |-> "u3",
   skills |-> [kind |-> "null", str |-> <<>>, arr |-> <<>>],
   accessibility_needs |-> [kind |-> "null", str |-> <<>>, arr |-> <<>>]]
ProfilesTable == <<ProfileRow1, ProfileRow2, ProfileRow3>>

\* jobs row: title 'Go dev', description 'go engineer', accessibility_features {'screenReaderSupport': true}
JobsRow1 ==
  [id |-> "j1", title |-> <<"G","o"," ","d","e","v">>, description |-> <<"g","o"," ","e","n","g","i","n","e","e","r">>,
   accessibility_features |-> <<[key |-> <<"s","c","r","e","e","n","R","e","a","d","e","r","S","u","p","p","o","r","t">>, value |-> TRUE]>>]
\* jobs row: title 'Java', description '', accessibility_features {}
JobsRow2 ==
  [id |-> "j2", title |-> <<"J","a","v","a">>, description |-> <<>>,
   accessibility_features |-> <<>>]
\* jobs row: title 'rust', description 'Rust; go', accessibility_features {'remoteWork': true}
JobsRow3 ==
  [id |-> "j3", title |-> <<"r","u","s","t">>, description |-> <<"R","u","s","t",";"," ","g","o">>,
   accessibility_features |-> <<[key |-> <<"r","e","m","o","t","e","W","o","r","k">>, value |-> TRUE]>>]
\* jobs row: title '', description '', accessibility_features {}
JobsRow4 ==
  [id |-> "j4", title |-> <<>>, description |-> <<>>,
   accessibility_features |-> <<>>]
JobsTable == <<JobsRow1, JobsRow2, JobsRow3, JobsRow4>>

\* posts row: is_job_post true, title 'Go', content 'google', job_metadata.accessibility_features {'screenReaderSupport': true, 'remoteWork': true, 'signLanguageSupport': false}
PostsRow1 ==
  [id |-> "p1", is_job_post |-> TRUE, title |-> <<"G","o">>, content |-> <<"g","o","o","g","l","e">>,
   job_metadata |-> [accessibility_features |-> <<[key |-> <<"s","c","r","e","e","n","R","e","a","d","e","r","S","u","p","p","o","r","t">>, value |-> TRUE], [key |-> <<"r","e","m","o","t","e","W","o","r","k">>, value |-> TRUE], [key |-> <<"s","i","g","n","L","a","n","g","u","a","g","e","S","u","p","p","o","r","t">>, value |-> FALSE]>>]]
\* posts row: is_job_post false, title 'blog', content 'my day', job_metadata.accessibility_features {}
PostsRow2 ==
  [id |-> "p2", is_job_post |-> FALSE, title |-> <<"b","l","o","g">>, content |-> <<"m","y"," ","d","a","y">>,
   job_metadata |-> [accessibility_features |-> <<>>]]
\* posts row: is_job_post true, title 'java', content '', job_metadata.accessibility_features {}
PostsRow3 ==
  [id |-> "p3", is_job_post |-> TRUE, title |-> <<"j","a","v","a">>, content |-> <<>>,
   job_metadata |-> [accessibility_features |-> <<>>]]
\* posts row: is_job_post true, title 'ops', content 'visual tools', job_metadata.accessibility_features {'flexibleHours': true}
PostsRow4 ==
  [id |-> "p4", is_job_post |-> TRUE, title |-> <<"o","p","s">>, content |-> <<"v","i","s","u","a","l"," ","t","o","o","l","s">>,
   job_metadata |-> [accessibility_features |-> <<[key |-> <<"f","l","e","x","i","b","l","e","H","o","u","r","s">>, value |-> TRUE]>>]]
\* posts row: is_job_post true, title 'rust', content 'rust', job_metadata.accessibility_features {'accessibleOffice': true}
PostsRow5 ==
  [id |-> "p5", is_job_post |-> TRUE, title |-> <<"r","u","s","t">>, content |-> <<"r","u","s","t">>,
   job_metadata |-> [accessibility_features |-> <<[key |-> <<"a","c","c","e","s","s","i","b","l","e","O","f","f","i","c","e">>, value |-> TRUE]>>]]
PostsTable == <<PostsRow1, PostsRow2, PostsRow3, PostsRow4, PostsRow5>>

\* ------------------------------------------------------ candidate loader
NoFeatures == <<>>

\* the rows a query answers with: at most `limit` of them
limitRows(rows, limit) == SubSeq(rows, 1, Min(limit, Len(rows)))

\* a select that also reads the accessibility_features column
selectAllJobColumns(row) ==
  [id |-> row.id, title |-> row.title, description |-> row.description,
   content |-> <<>>,
   job_metadata |-> [accessibility_features |-> NoFeatures],
   accessibility_features |-> row.accessibility_features]

\* .from('jobs').select('id, title, description'): a row of the answer holds
\* the selected columns only
selectJobColumns(row) ==
  [id |-> row.id, title |-> row.title, description |-> row.description,
   content |-> <<>>,
   job_metadata |-> [accessibility_features |-> NoFeatures],
   accessibility_features |-> NoFeatures]

\* .from('jobs').select('id, title, description').limit(1000) over the first
\* k stored rows
jobsQuery(k) ==
  LET rows == limitRows(SubSeq(JobsTable, 1, k), RowCap)
  IN  [i \in 1..Len(rows) |-> selectJobColumns(rows[i])]

\* (postsData || []).map(p => ({id, title, content, job_metadata}))
postToJob(p) ==
  [id |-> p.id, title |-> p.title, description |-> <<>>, content |-> p.content,
   job_metadata |-> p.job_metadata,
   accessibility_features |-> NoFeatures]

\* .from('posts').select(...).eq('is_job_post', true).limit(1000) over the
\* first k stored rows
postsQuery(k) ==
  limitRows(SelectSeq(SubSeq(PostsTable, 1, k), LAMBDA p : p.is_job_post), RowCap)

\* a source choice that looks at the error only
primaryUsableIgnoringData(jobsError, jobsIsArray) == ~jobsError

\* !jobsError && Array.isArray(jobsData)
primaryUsable(jobsError, jobsIsArray) == ~jobsError /\ jobsIsArray

\* .from('profiles').select(...).eq('id', userId).maybeSingle()
profileOf(userId) == SelectSeq(ProfilesTable, LAMBDA p : p.id = userId)

\* ------------------------------------------------------ similarity engine
\* The embedding collaborator answers a batch with one vector per text, all
\* of one dimension.  Vectors have integer entries and an integer norm, so
\* that the cosine is exact in units of 1/40.
VecsOfDim(d) ==
  IF d = 2 THEN {<<1, 0>>, <<3, 4>>, <<0, 0>>}
  ELSE {[i \in 1..d |-> IF i = 1 THEN 1 ELSE 0]}
Dims == {2, 3}

RECURSIVE dot(_, _)
dot(a, b) == IF a = <<>> THEN 0 ELSE a[1] * b[1] + dot(Tail(a), Tail(b))
norm(a) == CHOOSE n \in 0..dot(a, a) : n * n = dot(a, a)

\* [ok |-> FALSE] is a thrown error
cosineSimilarity(a, b, zeroThrows) ==
  IF Len(a) # Len(b) THEN [ok |-> FALSE, value |-> 0]
  ELSE IF norm(a) = 0 \/ norm(b) = 0
       THEN [ok |-> ~zeroThrows, value |-> 0]
       ELSE [ok |-> TRUE, value |-> (One * dot(a, b)) \div (norm(a) * norm(b))]

\* ------------------------------------------------------------- ranking
\* an ordering that puts a later element before its equals
comesBeforeStrictly(a, b) == a.score > b.score

\* scores.sort((a, b) => b.score - a.score): Array.prototype.sort is stable,
\* so each element goes behind every earlier element that the comparator
\* does not put after it
comesBefore(a, b) == a.score >= b.score
RECURSIVE insertSorted(_, _)
insertSorted(sorted, x) ==
  IF sorted = <<>> THEN <<x>>
  ELSE IF comesBefore(Head(sorted), x)
       THEN <<Head(sorted)>> \o insertSorted(Tail(sorted), x)
       ELSE <<x>> \o sorted
RECURSIVE sortByScore(_)
sortByScore(list) ==
  IF list = <<>> THEN <<>>
  ELSE insertSorted(sortByScore(SubSeq(list, 1, Len(list) - 1)), list[Len(list)])

\* a slice that keeps one entry too many
sliceInclusive(list, topN) ==
  IF topN >= 0 THEN SubSeq(list, 1, Min(topN + 1, Len(list)))
  ELSE SubSeq(list, 1, Max(0, Len(list) + topN + 1))

\* Array.prototype.slice(0, topN): a negative end counts from the end
slice0(list, topN) ==
  IF topN >= 0 THEN SubSeq(list, 1, Min(topN, Len(list)))
  ELSE SubSeq(list, 1, Max(0, Len(list) + topN))

\* the keyword path's tokens of the profile
keywordTokens(profile) ==
  filterBoolean(split(toLowerCase(skillsToText(profile.skills) \o <<" ">>
                                    \o accessibilityNeedsToText(profile.accessibility_needs)),
                      KeywordSeparators))

\* the keyword path's text of a job
keywordText(j) ==
  toLowerCase(j.description \o <<" ">> \o j.content \o <<" ">> \o j.title \o <<" ">>
                \o jobAccessibilityToText(j))

\* skills.reduce((acc, word) => acc + (text.includes(word) ? 1 : 0), 0)
RECURSIVE overlapCount(_, _)
overlapCount(words, text) ==
  IF words = <<>> THEN 0
  ELSE (IF includes(text, Head(words)) THEN 1 ELSE 0) + overlapCount(Tail(words), text)

\* base + boost on the semantic path
semanticScore(base, profile, j) ==
  base + computeAccessibilityBoost(profile.accessibility_needs, j)

\* base + boost * 20 on the keyword path
keywordScore(profile, j) ==
  overlapCount(keywordTokens(profile), keywordText(j)) * One
    + computeAccessibilityBoost(profile.accessibility_needs, j) * KeywordBoostScale

\* ---------------------------------------------------------------- state
VARIABLES
  mode,              \* "bulk": computeRecommendationsForAllUsers, "single": ...ForUser
  userId,            \* the userId argument of the single-user call
  topN,              \* the topN argument
  zeroNormThrows,    \* whether cosineSimilarity throws on a zero vector or returns 0
  pc,                \* the call's position
  profiles,          \* the loaded profiles (the one profile of a single-user call)
  jobsAnswer,        \* {data: jobsData, error: jobsError} of the 'jobs' query
  jobs,              \* the loaded jobs
  usedPostsFallback,
  reqP, reqJ,        \* the two embedTexts promises
  pVecs, jVecs,      \* profileEmbeddings / profileVecArr, jobEmbeddings
  pIdx,              \* the bulk loop's pIdx (1-based)
  scores,            \* the list being scored: `scores` (bulk), `scored` (single)
  results,           \* the bulk call's `results` record
  ret                \* what the call gave its caller

vars == <<mode, userId, topN, zeroNormThrows, pc, profiles, jobsAnswer, jobs,
          usedPostsFallback, reqP, reqJ, pVecs, jVecs, pIdx, scores, results, ret>>

UserIds == {ProfilesTable[i].id : i \in 1..Len(ProfilesTable)} \cup {"nobody"}
TopNs == (0 - MaxNegTopN)..MaxTopN

NotAsked == [asked |-> FALSE, error |-> FALSE, isArray |-> FALSE, rows |-> 0]
Idle == [status |-> "idle", texts |-> <<>>, value |-> <<>>]
NoRecord == [id \in {} |-> <<>>]
Running == [kind |-> "none", results |-> <<>>, usedPostsFallback |-> FALSE]
Returned(res, flag) == [kind |-> "value", results |-> res, usedPostsFallback |-> flag]
Thrown == [kind |-> "error", results |-> <<>>, usedPostsFallback |-> FALSE]

Init ==
  /\ mode \in {"bulk", "single"}
  /\ userId \in IF mode = "single" THEN UserIds ELSE {""}
  /\ topN \in TopNs
  /\ zeroNormThrows \in BOOLEAN
  /\ pc = "start"
  /\ profiles = <<>>
  /\ jobsAnswer = NotAsked
  /\ jobs = <<>>
  /\ usedPostsFallback = FALSE
  /\ reqP = Idle
  /\ reqJ = Idle
  /\ pVecs = <<>>
  /\ jVecs = <<>>
  /\ pIdx = 1
  /\ scores = <<>>
  /\ results = NoRecord
  /\ ret = Running

\* `throw`: the call ends with an error and gives the caller nothing
Throw ==
  /\ pc' = "done"
  /\ ret' = Thrown

\* `return { results, usedPostsFallback }`
Return(res, flag) ==
  /\ pc' = "done"
  /\ ret' = Returned(res, flag)

\* --------------------------------------------------------------- loading
\* fetchProfilesAndJobs, the 'profiles' query (lines 79-83)
FetchProfiles ==
  /\ pc = "start" /\ mode = "bulk"
  /\ \E profilesError \in BOOLEAN, k \in 0..Min(MaxProfiles, Len(ProfilesTable)) :
       IF profilesError
       THEN Throw /\ UNCHANGED profiles
       ELSE /\ profiles' = SubSeq(ProfilesTable, 1, k)
            /\ pc' = "jobs"
            /\ UNCHANGED ret
  /\ UNCHANGED <<mode, userId, topN, zeroNormThrows, jobsAnswer, jobs, usedPostsFallback,
                 reqP, reqJ, pVecs, jVecs, pIdx, scores, results>>

\* computeRecommendationsForUser, the profile query (lines 145-152)
FetchProfile ==
  /\ pc = "start" /\ mode = "single"
  /\ \E profileError \in BOOLEAN :
       IF profileError
       THEN Throw /\ UNCHANGED profiles
       ELSE IF profileOf(userId) = <<>>
       THEN Return(<<>>, FALSE) /\ UNCHANGED profiles
       ELSE /\ profiles' = <<profileOf(userId)[1]>>
            /\ pc' = "jobs"
            /\ UNCHANGED ret
  /\ UNCHANGED <<mode, userId, topN, zeroNormThrows, jobsAnswer, jobs, usedPostsFallback,
                 reqP, reqJ, pVecs, jVecs, pIdx, scores, results>>

\* the 'jobs' query and the choice of the source (lines 86-98, 155-165);
\* with the primary source, the single-user call returns at once when there
\* are no jobs (line 175).  The storage client answers an error with
\* data: null.
QueryJobs ==
  /\ pc = "jobs"
  /\ \E jobsError \in BOOLEAN, jobsIsArray \in BOOLEAN, k \in 0..Min(MaxJobs, Len(JobsTable)) :
       /\ jobsError => ~jobsIsArray
       /\ ~jobsIsArray => k = 0
       /\ jobsAnswer' = [asked |-> TRUE, error |-> jobsError, isArray |-> jobsIsArray,
                         rows |-> k]
       /\ IF primaryUsable(jobsError, jobsIsArray)
          THEN /\ jobs' = jobsQuery(k)
               /\ usedPostsFallback' = FALSE
               /\ IF mode = "single" /\ Len(jobs') = 0
                  THEN Return(<<>>, usedPostsFallback')
                  ELSE pc' = "embed" /\ UNCHANGED ret
          ELSE /\ usedPostsFallback' = TRUE
               /\ pc' = "posts"
               /\ UNCHANGED <<jobs, ret>>
  /\ UNCHANGED <<mode, userId, topN, zeroNormThrows, profiles, reqP, reqJ, pVecs, jVecs,
                 pIdx, scores, results>>

\* the 'posts' query of the fallback (lines 99-105, 166-172) and, in the
\* single-user call, the return when there are no jobs (line 175)
QueryPosts ==
  /\ pc = "posts"
  /\ \E postsError \in BOOLEAN, postsIsNull \in BOOLEAN, k \in 0..Len(PostsTable) :
       /\ Len(postsQuery(k)) <= MaxJobs
       /\ IF postsError
          THEN Throw /\ UNCHANGED jobs
          ELSE LET postsData == IF postsIsNull THEN <<>> ELSE postsQuery(k)
                   mapped == [i \in 1..Len(postsData) |-> postToJob(postsData[i])]
               IN  /\ jobs' = mapped
                   /\ IF mode = "single" /\ Len(mapped) = 0
                      THEN Return(<<>>, usedPostsFallback)
                      ELSE pc' = "embed" /\ UNCHANGED ret
  /\ UNCHANGED <<mode, userId, topN, zeroNormThrows, profiles, jobsAnswer, usedPostsFallback,
                 reqP, reqJ, pVecs, jVecs, pIdx, scores, results>>

\* ------------------------------------------------------------ embedding
\* a call that awaits the first request before it issues the second
IssueEmbedsOneByOne ==
  /\ pc = "embed"
  /\ reqP' = [status |-> "pending",
              texts |-> [i \in 1..Len(profiles) |-> profileText(profiles[i])],
              value |-> <<>>]
  /\ pc' = "await"
  /\ UNCHANGED <<mode, userId, topN, zeroNormThrows, profiles, jobsAnswer, jobs,
                 usedPostsFallback, reqJ, pVecs, jVecs, pIdx, scores, results, ret>>

\* the two embedTexts calls inside Promise.all([...]) (lines 120-123, 178-181):
\* both requests are issued before the call awaits
IssueEmbeds ==
  /\ pc = "embed"
  /\ reqP' = [status |-> "pending",
              texts |-> [i \in 1..Len(profiles) |-> profileText(profiles[i])],
              value |-> <<>>]
  /\ reqJ' = [status |-> "pending",
              texts |-> [i \in 1..Len(jobs) |-> jobText(jobs[i])],
              value |-> <<>>]
  /\ pc' = "await"
  /\ UNCHANGED <<mode, userId, topN, zeroNormThrows, profiles, jobsAnswer, jobs,
                 usedPostsFallback, pVecs, jVecs, pIdx, scores, results, ret>>

\* what a request settles to: a rejection, or one vector per text, all of one
\* dimension.  Once the call has left the await nothing reads the value.
Settled(req) ==
  {[status |-> "rejected", texts |-> req.texts, value |-> <<>>]}
  \cup {[status |-> "fulfilled", texts |-> req.texts,
         value |-> IF pc = "await" THEN v ELSE <<>>] :
          v \in UNION {[1..Len(req.texts) -> VecsOfDim(d)] : d \in Dims}}

\* the embedding collaborator settles the profile-text request
SettleProfileEmbed ==
  /\ reqP.status = "pending"
  /\ reqP' \in Settled(reqP)
  /\ UNCHANGED <<mode, userId, topN, zeroNormThrows, pc, profiles, jobsAnswer, jobs,
                 usedPostsFallback, reqJ, pVecs, jVecs, pIdx, scores, results, ret>>

\* the embedding collaborator settles the job-text request
SettleJobEmbed ==
  /\ reqJ.status = "pending"
  /\ reqJ' \in Settled(reqJ)
  /\ UNCHANGED <<mode, userId, topN, zeroNormThrows, pc, profiles, jobsAnswer, jobs,
                 usedPostsFallback, reqP, pVecs, jVecs, pIdx, scores, results, ret>>

\* Promise.all fulfils when every promise has fulfilled
allFulfilled(p, j) == p.status = "fulfilled" /\ j.status = "fulfilled"
\* Promise.all rejects as soon as one promise has rejected
anyRejected(p, j) == p.status = "rejected" \/ j.status = "rejected"

\* `await Promise.all([...])` resumes with both arrays
JoinFulfilled ==
  /\ pc = "await"
  /\ allFulfilled(reqP, reqJ)
  /\ pVecs' = reqP.value
  /\ jVecs' = reqJ.value
  /\ pIdx' = 1
  /\ scores' = <<>>
  /\ pc' = "score"
  /\ UNCHANGED <<mode, userId, topN, zeroNormThrows, profiles, jobsAnswer, jobs,
                 usedPostsFallback, reqP, reqJ, results, ret>>

\* a bulk call that swallows the rejection and returns what it has
JoinRejectedReturnsPartial ==
  /\ pc = "await"
  /\ anyRejected(reqP, reqJ)
  /\ IF mode = "bulk" THEN Return(results, usedPostsFallback)
     ELSE pc' = "catch" /\ UNCHANGED ret
  /\ UNCHANGED <<mode, userId, topN, zeroNormThrows, profiles, jobsAnswer, jobs,
                 usedPostsFallback, reqP, reqJ, pVecs, jVecs, pIdx, scores, results>>

\* `await Promise.all([...])` throws: the bulk call lets the error out
\* (line 120), the single-user call enters its catch block (line 192)
JoinRejected ==
  /\ pc = "await"
  /\ anyRejected(reqP, reqJ)
  /\ IF mode = "bulk" THEN Throw ELSE pc' = "catch" /\ UNCHANGED ret
  /\ UNCHANGED <<mode, userId, topN, zeroNormThrows, profiles, jobsAnswer, jobs,
                 usedPostsFallback, reqP, reqJ, pVecs, jVecs, pIdx, scores, results>>

\* --------------------------------------------------------------- scoring
Entry(j, score, path) == [jobId |-> j.id, score |-> score, path |-> path]

\* bulk: the inner loop over the jobs (lines 129-136) from jIdx on, given the
\* scores pushed so far; [ok |-> FALSE] when cosineSimilarity throws
RECURSIVE scoreJobsFrom(_, _, _, _, _, _, _)
scoreJobsFrom(jIdx, pVec, jobVecs, profile, jobRows, zeroThrows, pushed) ==
  IF jIdx > Len(jobVecs) THEN [ok |-> TRUE, scores |-> pushed]
  ELSE LET base == cosineSimilarity(pVec, jobVecs[jIdx], zeroThrows)
       IN  IF ~base.ok THEN [ok |-> FALSE, scores |-> pushed]
           ELSE scoreJobsFrom(jIdx + 1, pVec, jobVecs, profile, jobRows, zeroThrows,
                  Append(pushed,
                    Entry(jobRows[jIdx],
                          semanticScore(base.value, profile, jobRows[jIdx]), "semantic")))

\* bulk: one turn of the outer loop (lines 127-139): score every job, sort,
\* slice, store under the profile's id; a throwing cosineSimilarity ends the
\* call
BulkScoreProfile ==
  /\ pc = "score" /\ mode = "bulk"
  /\ pIdx <= Len(pVecs)
  /\ LET scored == scoreJobsFrom(1, pVecs[pIdx], jVecs, profiles[pIdx], jobs,
                                 zeroNormThrows, <<>>)
     IN  IF scored.ok
         THEN /\ scores' = sortByScore(scored.scores)
              /\ results' = [id \in DOMAIN results \cup {profiles[pIdx].id} |->
                               IF id = profiles[pIdx].id THEN slice0(scores', topN)
                               ELSE results[id]]
              /\ pIdx' = pIdx + 1
              /\ UNCHANGED <<pc, ret>>
         ELSE /\ Throw
              /\ scores' = scored.scores
              /\ UNCHANGED <<results, pIdx>>
  /\ UNCHANGED <<mode, userId, topN, zeroNormThrows, profiles, jobsAnswer, jobs,
                 usedPostsFallback, reqP, reqJ, pVecs, jVecs>>

\* bulk: return { results, usedPostsFallback } (line 141)
BulkReturn ==
  /\ pc = "score" /\ mode = "bulk"
  /\ pIdx > Len(pVecs)
  /\ Return(results, usedPostsFallback)
  /\ UNCHANGED <<mode, userId, topN, zeroNormThrows, profiles, jobsAnswer, jobs,
                 usedPostsFallback, reqP, reqJ, pVecs, jVecs, pIdx, scores, results>>

\* single: one call of the callback of jobs.map (lines 184-188); a throwing
\* cosineSimilarity is caught by the enclosing try (line 192)
UserScoreJob ==
  /\ pc = "score" /\ mode = "single"
  /\ Len(scores) < Len(jobs)
  /\ LET idx == Len(scores) + 1
         base == cosineSimilarity(pVecs[1], jVecs[idx], zeroNormThrows)
     IN  IF base.ok
         THEN /\ scores' = Append(scores,
                  Entry(jobs[idx], semanticScore(base.value, profiles[1], jobs[idx]),
                        "semantic"))
              /\ pc' = pc
         ELSE pc' = "catch" /\ UNCHANGED scores
  /\ UNCHANGED <<mode, userId, topN, zeroNormThrows, profiles, jobsAnswer, jobs,
                 usedPostsFallback, reqP, reqJ, pVecs, jVecs, pIdx, results, ret>>

\* single: sort, slice and return on the semantic path (lines 190-191)
UserReturn ==
  /\ pc = "score" /\ mode = "single"
  /\ Len(scores) = Len(jobs)
  /\ scores' = sortByScore(scores)
  /\ Return(slice0(scores', topN), usedPostsFallback)
  /\ UNCHANGED <<mode, userId, topN, zeroNormThrows, profiles, jobsAnswer, jobs,
                 usedPostsFallback, reqP, reqJ, pVecs, jVecs, pIdx, results>>

\* a catch block that lets the error out instead of falling back
UserCatchRethrows ==
  /\ pc = "catch"
  /\ Throw
  /\ UNCHANGED <<mode, userId, topN, zeroNormThrows, profiles, jobsAnswer, jobs,
                 usedPostsFallback, reqP, reqJ, pVecs, jVecs, pIdx, scores, results>>

\* a catch block that keeps the scores the try block had reached and scores
\* only the remaining jobs by keyword overlap
UserKeywordFallbackResuming ==
  /\ pc = "catch"
  /\ scores' = sortByScore(scores \o
                 [i \in 1..(Len(jobs) - Len(scores)) |->
                    Entry(jobs[Len(scores) + i],
                          keywordScore(profiles[1], jobs[Len(scores) + i]), "keyword")])
  /\ Return(slice0(scores', topN), usedPostsFallback)
  /\ UNCHANGED <<mode, userId, topN, zeroNormThrows, profiles, jobsAnswer, jobs,
                 usedPostsFallback, reqP, reqJ, pVecs, jVecs, pIdx, results>>

\* single: the catch block (lines 193-210) scores every job anew by keyword
\* overlap, sorts, slices and returns
UserKeywordFallback ==
  /\ pc = "catch"
  /\ scores' = sortByScore([i \in 1..Len(jobs) |->
                              Entry(jobs[i], keywordScore(profiles[1], jobs[i]), "keyword")])
  /\ Return(slice0(scores', topN), usedPostsFallback)
  /\ UNCHANGED <<mode, userId, topN, zeroNormThrows, profiles, jobsAnswer, jobs,
                 usedPostsFallback, reqP, reqJ, pVecs, jVecs, pIdx, results>>

Next ==
  \/ FetchProfiles
  \/ FetchProfile
  \/ QueryJobs
  \/ QueryPosts
  \/ IssueEmbeds
  \/ SettleProfileEmbed
  \/ SettleJobEmbed
  \/ JoinFulfilled
  \/ JoinRejected
  \/ BulkScoreProfile
  \/ BulkReturn
  \/ UserScoreJob
  \/ UserReturn
  \/ UserKeywordFallback

Spec == Init /\ [][Next]_vars

\* ===================================================================
\* Properties
\* ===================================================================
Range(list) == {list[i] : i \in 1..Len(list)}

\* the ranked lists the call gave its caller, each with the index of its profile
ReturnedLists ==
  IF ret.kind # "value" THEN {}
  ELSE IF mode = "single" THEN {[p |-> 1, list |-> ret.results]}
  ELSE {[p |-> i, list |-> ret.results[profiles[i].id]] :
          i \in {n \in 1..Len(profiles) : profiles[n].id \in DOMAIN ret.results}}

ReturnedEntries == UNION {Range(r.list) : r \in ReturnedLists}

\* the position of a job in the loaded job list
JobIndex(id) == CHOOSE i \in 1..Len(jobs) : jobs[i].id = id

EmbedFailed == reqP.status = "rejected" \/ reqJ.status = "rejected"

\* the keyword-overlap score as the claims word it: the number of lower-cased
\* tokens of the profile text that occur in the job's lower-cased text, plus
\* twenty times the boost
OverlapOf(profile, j) ==
  LET words == SelectSeq(split(toLowerCase(skillsToText(profile.skills) \o <<" ">>
                                 \o accessibilityNeedsToText(profile.accessibility_needs)),
                               {" ", "\t", "\n", ",", ";"}),
                         LAMBDA t : t # <<>>)
      text == toLowerCase(j.description \o <<" ">> \o j.content \o <<" ">> \o j.title
                            \o <<" ">> \o jobAccessibilityToText(j))
  IN  Cardinality({i \in 1..Len(words) : includes(text, words[i])})

\* the bare cosine of a profile and a job of this call
CosineOf(p, j) == cosineSimilarity(pVecs[p], jVecs[j], zeroNormThrows).value

\* C1: in the single-user call with a profile and at least one job, a failed
\* embedTexts call never reaches the caller as an error, and the list the
\* call returns is scored by keyword overlap plus twenty times the boost.
C1_EmbedFailureFallsBackToKeywords ==
  (mode = "single" /\ Len(profiles) = 1 /\ Len(jobs) >= 1 /\ EmbedFailed)
    => /\ ret.kind # "error"
       /\ pc = "done" =>
            /\ ret.kind = "value"
            /\ \A e \in Range(ret.results) :
                 /\ e.path = "keyword"
                 /\ e.score = OverlapOf(profiles[1], jobs[JobIndex(e.jobId)]) * One
                      + computeAccessibilityBoost(profiles[1].accessibility_needs,
                                                  jobs[JobIndex(e.jobId)]) * 20

C1_Witness ==
  /\ mode = "single" /\ pc = "done" /\ EmbedFailed
  /\ ret.kind = "value"
  /\ Len(ret.results) >= 2
  /\ ret.results[1].score > ret.results[2].score
  /\ ret.results[2].score > 0

\* C2: in the bulk call a failed embedTexts call ends the call with an error;
\* the call gives its caller either a map with an entry for every loaded
\* profile, all of them scored semantically, or an error and no map.
C2_BulkAllOrNothing ==
  (mode = "bulk" /\ pc = "done")
    => /\ EmbedFailed => ret.kind = "error"
       /\ ret.kind \in {"value", "error"}
       /\ ret.kind = "error" => ret.results = <<>>
       /\ ret.kind = "value" =>
            /\ DOMAIN ret.results = {profiles[i].id : i \in 1..Len(profiles)}
            /\ \A e \in ReturnedEntries : e.path = "semantic"

C2_Witness ==
  /\ mode = "bulk" /\ pc = "done"
  /\ Len(profiles) >= 2 /\ Len(jobs) >= 1
  /\ reqP.status = "fulfilled" /\ reqJ.status = "rejected"
  /\ ret.kind = "error"

\* C3: the single-user call takes the keyword path only when an embedTexts
\* call has failed; an error of cosineSimilarity reaches the caller.
C3_KeywordPathOnlyOnEmbedFailure ==
  (mode = "single" /\ (pc = "catch" \/ \E e \in ReturnedEntries : e.path = "keyword"))
    => EmbedFailed

C3_Witness ==
  /\ mode = "single" /\ pc = "done" /\ ret.kind = "value"
  /\ reqP.status = "fulfilled" /\ reqJ.status = "fulfilled"
  /\ Len(pVecs[1]) # Len(jVecs[1])
  /\ \E e \in ReturnedEntries : e.path = "keyword"

\* C4: all the scores a call returns come from one scoring path, also when
\* the semantic path fails after it has scored some of the jobs.
C4_OneScoringPath ==
  \A e1 \in ReturnedEntries, e2 \in ReturnedEntries : e1.path = e2.path

C4_Witness ==
  /\ mode = "single" /\ pc = "done" /\ ret.kind = "value"
  /\ reqP.status = "fulfilled" /\ reqJ.status = "fulfilled"
  /\ Len(jobs) >= 2 /\ Len(ret.results) >= 2
  /\ cosineSimilarity(pVecs[1], jVecs[1], zeroNormThrows).ok
  /\ ~cosineSimilarity(pVecs[1], jVecs[2], zeroNormThrows).ok
  /\ \A e \in ReturnedEntries : e.path = "keyword"

\* C5 as stated: the flag a call returns is true exactly when the 'jobs'
\* query failed or answered with no rows.
C5_FlagIffPrimaryFailedOrEmpty ==
  ret.kind = "value" =>
    (ret.usedPostsFallback
       <=> (jobsAnswer.asked
            /\ (jobsAnswer.error \/ ~jobsAnswer.isArray \/ jobsAnswer.rows = 0)))

\* C5, amended: the flag a call returns is true exactly when the 'jobs' query
\* answered with an error or with data that is no array (an empty array
\* leaves it false), whichever scoring path the call then took.
C5_FlagIffPrimaryUnusable ==
  /\ ret.kind = "value" =>
       (ret.usedPostsFallback
          <=> (jobsAnswer.asked /\ (jobsAnswer.error \/ ~jobsAnswer.isArray)))
  /\ pc \in {"embed", "await", "score", "catch"} =>
       (usedPostsFallback <=> (jobsAnswer.error \/ ~jobsAnswer.isArray))

C5_Witness ==
  /\ mode = "single" /\ pc = "done" /\ ret.kind = "value"
  /\ ret.usedPostsFallback
  /\ ~jobsAnswer.error /\ ~jobsAnswer.isArray
  /\ \E e \in ReturnedEntries : e.path = "keyword"

\* C6 as stated: every returned ranked list has exactly min(topN, number of
\* jobs) entries, so never more than topN.
C6_LengthIsMinTopNJobs ==
  \A r \in ReturnedLists :
    /\ Len(r.list) = (IF topN <= Len(jobs) THEN topN ELSE Len(jobs))
    /\ Len(r.list) <= topN

\* C6, amended: every returned ranked list has min(topN, number of jobs)
\* entries when topN >= 0, and max(0, number of jobs + topN) entries when
\* topN < 0.
C6_LengthBySlice ==
  \A r \in ReturnedLists :
    Len(r.list) = (IF topN >= 0
                   THEN (IF topN <= Len(jobs) THEN topN ELSE Len(jobs))
                   ELSE (IF Len(jobs) + topN >= 0 THEN Len(jobs) + topN ELSE 0))

C6_Witness ==
  /\ mode = "bulk" /\ pc = "done" /\ ret.kind = "value"
  /\ topN >= 1 /\ Len(jobs) > topN
  /\ Len(profiles) >= 2
  /\ \A r \in ReturnedLists : Len(r.list) = topN

\* the score of job j for profile p on the path that ranked the list
ScoreOn(path, p, j) ==
  IF path = "semantic"
  THEN CosineOf(p, j) + computeAccessibilityBoost(profiles[p].accessibility_needs, jobs[j])
  ELSE OverlapOf(profiles[p], jobs[j]) * One
         + computeAccessibilityBoost(profiles[p].accessibility_needs, jobs[j]) * 20

\* C7: every returned ranked list is in non-increasing order of score, jobs
\* of equal score keep the order of the loaded job list, and no job left
\* out scores strictly higher than a returned one.
C7_SortedStablePrefix ==
  \A r \in ReturnedLists :
    /\ \A a \in 1..Len(r.list), b \in 1..Len(r.list) :
         a < b =>
           /\ r.list[a].score >= r.list[b].score
           /\ r.list[a].score = r.list[b].score
                => JobIndex(r.list[a].jobId) < JobIndex(r.list[b].jobId)
    /\ \A a \in 1..Len(r.list), j \in 1..Len(jobs) :
         (\A b \in 1..Len(r.list) : r.list[b].jobId # jobs[j].id)
           => /\ ScoreOn(r.list[a].path, r.p, j) <= r.list[a].score
              /\ ScoreOn(r.list[a].path, r.p, j) = r.list[a].score
                   => JobIndex(r.list[a].jobId) < j

C7_Witness ==
  /\ pc = "done" /\ ret.kind = "value"
  /\ \E r \in ReturnedLists :
       /\ Len(r.list) = 1 /\ Len(jobs) = 2
       /\ r.list[1].jobId = jobs[2].id
       /\ r.list[1].score > ScoreOn(r.list[1].path, r.p, 1)

\* a job with no truthy accessibility feature in either place
NoTruthyFeature(j) ==
  /\ \A i \in 1..Len(j.job_metadata.accessibility_features) :
       ~j.job_metadata.accessibility_features[i].value
  /\ \A i \in 1..Len(j.accessibility_features) : ~j.accessibility_features[i].value

\* the loaded (profile, job) pairs, whose boost the scoring computes
LoadedPairs == (1..Len(profiles)) \X (1..Len(jobs))
BoostOf(pj) == computeAccessibilityBoost(profiles[pj[1]].accessibility_needs, jobs[pj[2]])
MatchesOf(pj) == matchCount(profiles[pj[1]].accessibility_needs, jobs[pj[2]])

\* C8: the boost is min(0.2, matches * 0.05) (8 and one unit per half match
\* here), lies in [0, 0.2], does not decrease when the match count grows, is
\* 0 without needs and 0 for a job without a truthy feature; times 20 it
\* lies in [0, 4], and that is what the keyword path adds to the overlap.
\* (The loaded profiles and jobs never change once loaded: the pairs are
\* examined in the state that follows the loading.)
C8_BoostBounded ==
  /\ pc = "embed" => \A pj \in LoadedPairs :
       /\ BoostOf(pj) = (IF MatchesOf(pj) <= 8 THEN MatchesOf(pj) ELSE 8)
       /\ BoostOf(pj) >= 0 /\ BoostOf(pj) <= 8
       /\ BoostOf(pj) * 20 >= 0 /\ BoostOf(pj) * 20 <= 4 * One
       /\ profiles[pj[1]].accessibility_needs.kind = "null" => BoostOf(pj) = 0
       /\ profiles[pj[1]].accessibility_needs.arr = <<>> => BoostOf(pj) = 0
       /\ NoTruthyFeature(jobs[pj[2]]) => BoostOf(pj) = 0
       /\ \A qk \in LoadedPairs : MatchesOf(pj) <= MatchesOf(qk) => BoostOf(pj) <= BoostOf(qk)
  /\ \A r \in ReturnedLists : \A e \in Range(r.list) :
       e.path = "keyword" =>
         LET added == e.score - OverlapOf(profiles[r.p], jobs[JobIndex(e.jobId)]) * One
         IN  added >= 0 /\ added <= 4 * One

C8_Witness ==
  /\ mode = "single" /\ pc = "done" /\ ret.kind = "value"
  /\ \E e \in ReturnedEntries :
       /\ e.path = "keyword"
       /\ MatchesOf(<<1, JobIndex(e.jobId)>>) > 8
       /\ e.score - OverlapOf(profiles[1], jobs[JobIndex(e.jobId)]) * One = 4 * One

Issued(req) == req.status # "idle"
Completed(req) == req.status \in {"fulfilled", "rejected"}
PastJoin == pc \in {"score", "catch"} \/ (pc = "done" /\ Issued(reqP))

\* C9 as stated: both requests are issued before the call awaits, and no
\* step after the join runs while one of the two is still in flight.
C9_NothingInFlightPastJoin ==
  /\ pc = "await" => Issued(reqP) /\ Issued(reqJ)
  /\ PastJoin => Completed(reqP) /\ Completed(reqJ)

\* C9, amended: both requests are issued before the call awaits; scoring
\* starts only when both have fulfilled; the keyword fallback or the error
\* starts once one request has rejected, and only then can the other still
\* be in flight.
C9_JoinFulfilsOnBothRejectsOnFirst ==
  /\ pc = "await" => Issued(reqP) /\ Issued(reqJ)
  /\ pc = "score" => reqP.status = "fulfilled" /\ reqJ.status = "fulfilled"
  /\ PastJoin => Issued(reqP) /\ Issued(reqJ)
  /\ (PastJoin /\ ~(Completed(reqP) /\ Completed(reqJ))) => EmbedFailed

C9_Witness ==
  /\ mode = "single" /\ pc = "catch"
  /\ reqP.status = "rejected" /\ reqJ.status = "pending"

\* C10: a call served by the 'jobs' source loads rows without accessibility
\* features: every boost is 0, a semantic score is the bare cosine and a
\* keyword score the bare overlap count; a boost above 0 needs the posts
\* fallback.  (The loaded pairs are examined in the state that follows the
\* loading, the scores in the state that follows the return.)
C10_NoBoostFromPrimarySource ==
  /\ (pc = "embed" /\ ~usedPostsFallback) =>
       \A pj \in LoadedPairs :
         /\ jobAccessibilityToText(jobs[pj[2]]) = <<>>
         /\ BoostOf(pj) = 0
  /\ (pc = "embed" /\ \E pj \in LoadedPairs : BoostOf(pj) > 0) => usedPostsFallback
  /\ \A r \in ReturnedLists :
       ~ret.usedPostsFallback =>
         \A e \in Range(r.list) :
           e.score = (IF e.path = "semantic" THEN CosineOf(r.p, JobIndex(e.jobId))
                      ELSE OverlapOf(profiles[r.p], jobs[JobIndex(e.jobId)]) * One)

C10_Witness ==
  /\ mode = "single" /\ pc = "done" /\ ret.kind = "value"
  /\ ~ret.usedPostsFallback
  /\ Len(profiles) = 1
  /\ profiles[1].accessibility_needs.arr # <<>>
  /\ \E e \in ReturnedEntries :
       /\ e.path = "semantic"
       /\ JobsTable[JobIndex(e.jobId)].accessibility_features # <<>>
       /\ e.score > 0

====
